---- MODULE Spec2Model ----
(***************************************************************************)
(* Model of the signing orchestration core of dkg-gadget:                  *)
(*   signing_manager/work_manager.rs  (WorkManager, Job, should_deliver)   *)
(*   signing_manager/mod.rs           (SigningManager)                     *)
(* The WorkManager state lives behind one RwLock, so every WorkManager     *)
(* method is one atomic action.  on_block_finalized is an async fn and is  *)
(* split at its suspension points.                                         *)
(***************************************************************************)
EXTENDS Integers, Sequences, FiniteSets, TLC

\* ------------------------------------------------------------------ bounds
NumFingerprints == 2      \* distinct proposal hashes
NumSessions == 2          \* distinct session ids
MaxJobs == 3              \* Jobs constructed in one behaviour
MaxSigningJobs == 2       \* Jobs on_block_finalized constructs in one behaviour
MaxMsgs == 2              \* messages received in one behaviour
MaxInputs == 3            \* Jobs plus messages in one behaviour
MaxBlock == 1             \* highest block number the clock reaches
MaxTasksNarrow == 1       \* max_tasks of the WorkManager of Spec and SpecSM
MaxTasksWide == 2         \* max_tasks of the WorkManager of SpecWide
MaxParty == 2             \* highest authority index the chain client answers
MaxThreshold == 1         \* highest signature threshold t
NumSeeds == 2             \* distinct seeds

\* ----------------------------------------------------------- configuration
max_enqueued_tasks == 1
MAX_POTENTIAL_SIGNING_SETS_PER_PROPOSAL == 2
ASSOCIATED_BLOCK_ID_MESSAGE_DELIVERY_TOLERANCE == 0

Fingerprints == 1..NumFingerprints
Sessions == 1..NumSessions
Ssids == 0..(MAX_POTENTIAL_SIGNING_SETS_PER_PROPOSAL - 1)
Blocks == 0..MaxBlock

VARIABLES
  max_tasks,          \* WorkManager.max_tasks, set by WorkManager::new
  gs,                 \* the generate_signers call: its inputs and what it returned
  clock,              \* HasLatestHeader::get_latest_block_number
  njobs,              \* Jobs constructed so far; a Job's id is its identity
  remote,             \* per Job id: calls its AsyncProtocolRemote and driver got
  done,               \* ids of the Jobs whose handle.is_done() holds
  stalled,            \* ids of the Jobs whose handle.signing_has_stalled(now) holds
  active_tasks,       \* WorkManagerInner.active_tasks
  enqueued_tasks,     \* WorkManagerInner.enqueued_tasks
  enqueued_messages,  \* WorkManagerInner.enqueued_messages
  nmsgs,              \* messages received so far; a message's id is its identity
  seen,               \* the greatest fingerprint, ssid and session id that occurred so far
  lock,               \* SigningManager.lock, the keygen flag
  obf,                \* the on_block_finalized invocation in flight: where it is
                      \* suspended, its locals, and what the last one returned
  last                \* the operation that produced this state: its result and
                      \* the calls it made on handles and on the executor

vars == <<max_tasks, gs, clock, njobs, remote, done, stalled, active_tasks, enqueued_tasks,
          enqueued_messages, nmsgs, seen, lock, obf, last>>

\* ----------------------------------------------------------------- helpers
saturating_sub(a, b) == IF a > b THEN a - b ELSE 0

Restrict(f, S) == [x \in S |-> f[x]]

SeqToSet(s) == {s[i] : i \in 1..Len(s)}

Ids(S) == {j.id : j \in S}

\* the elements of a set of Jobs as a sequence, by ascending id
RECURSIVE JobSeq(_)
JobSeq(S) ==
  IF S = {} THEN <<>>
  ELSE LET j == CHOOSE x \in S : \A y \in S : x.id <= y.id
       IN  <<j>> \o JobSeq(S \ {j})

Max(a, b) == IF a > b THEN a ELSE b

\* The WorkManager only ever compares fingerprints, ssids and session ids for
\* equality, so a behaviour of its methods is a renaming of one in which the
\* values occur for the first time in ascending order: the next value is one
\* that occurred already or the least new one.
NextOf(n, S) == {x \in S : \A y \in S : y < x => y <= n}

Seen(h, s, sid) ==
  seen' = [fingerprints |-> Max(seen.fingerprints, h), ssids |-> Max(seen.ssids, s),
           sessions |-> Max(seen.sessions, sid)]

\* dkg_runtime_primitives::associated_block_id_acceptable: received lies in
\* the window of ASSOCIATED_BLOCK_ID_MESSAGE_DELIVERY_TOLERANCE around expected
associated_block_id_acceptable(expected, received) ==
  /\ received <= expected + ASSOCIATED_BLOCK_ID_MESSAGE_DELIVERY_TOLERANCE
  /\ received >= saturating_sub(expected, ASSOCIATED_BLOCK_ID_MESSAGE_DELIVERY_TOLERANCE)

should_deliver(task, msg, message_task_hash) ==
  /\ task.session_id = msg.session_id
  /\ task.task_hash = message_task_hash
  /\ task.ssid = msg.ssid
  /\ associated_block_id_acceptable(task.associated_block_id, msg.associated_block_id)

\* struct Job, with the fields of its handle that the WorkManager reads
Job(id, task_hash, ssid, session_id, associated_block_id) ==
  [id |-> id, task_hash |-> task_hash, ssid |-> ssid, session_id |-> session_id,
   associated_block_id |-> associated_block_id]

\* one call on a Job's handle (start, deliver_message, shutdown) or the
\* tokio::task::spawn of its driver
Call(id, call, arg, msg) == [job |-> id, call |-> call, arg |-> arg, msg |-> msg]

\* what a fresh Job's handle and driver have seen
NewRemote == [starts |-> 0, drops |-> 0, spawned |-> 0]

\* An operation: its name, its argument (the Job pushed, the message delivered
\* with its task hash), its result, the calls it made, and what
\* on_block_finalized returned in the same step ("" if it did not return)
NoArg == [id |-> 0]

Op(op, arg, result, calls) ==
  [op |-> op, arg |-> arg, result |-> result, calls |-> calls, returned |-> ""]

\* faulty variant, for sensitivity: a dropped Job's handle is not shut down
DropCalls_none(js) == <<>>

\* impl Drop for Job, for the Jobs of the sequence js
DropCalls(js) ==
  [i \in 1..Len(js) |-> Call(js[i].id, "shutdown", "DropCode", 0)]

\* faulty variant, for sensitivity: the drops are not counted
Dropped_none(rem, D) == rem

\* the handles after the drop of the Jobs with an id of D
Dropped(rem, D) ==
  [j \in DOMAIN rem |-> IF j \in D THEN [rem[j] EXCEPT !.drops = @ + 1] ELSE rem[j]]

\* no on_block_finalized in flight
Idle ==
  [pc |-> "idle", header |-> 0, session_id |-> 0, unsigned_proposals |-> <<>>,
   batch |-> 0, ssid |-> 0]

\* no generate_signers call
NoCall ==
  [pc |-> "none", t |-> 0, seed |-> 0, chain |-> "Ok", unjailed |-> <<>>,
   jailed |-> <<>>, result |-> "", set |-> <<>>]

\* -------------------------------------------------------------------- Init
\* WorkManager::new(logger, clock, max_tasks, max_enqueued_tasks, poll_method)
\* and SigningManager::new
new(tasks, call) ==
  /\ max_tasks = tasks
  /\ gs = call
  /\ clock = 0
  /\ njobs = 0
  /\ remote = <<>>
  /\ done = {}
  /\ stalled = {}
  /\ active_tasks = {}
  /\ enqueued_tasks = <<>>
  /\ enqueued_messages = <<>>
  /\ nmsgs = 0
  /\ seen = [fingerprints |-> 0, ssids |-> -1, sessions |-> 0]
  /\ lock = FALSE
  /\ obf = Idle
  /\ last = Op("new", NoArg, "Ok", <<>>)

Init == new(MaxTasksNarrow, NoCall)

InitWide == new(MaxTasksWide, NoCall)

\* ------------------------------------------------- start_job_unconditional
\* the queue enqueued_messages holds for the Job's task hash and ssid
QueueFor(buf, job) ==
  IF job.task_hash \in DOMAIN buf /\ job.ssid \in DOMAIN buf[job.task_hash]
  THEN buf[job.task_hash][job.ssid] ELSE <<>>
\* faulty variant, for sensitivity: pop_back, the newest message first
Deliverable_lifo(job, queue) ==
  LET d == SelectSeq(queue, LAMBDA m : should_deliver(job, m, job.task_hash))
  IN  [i \in 1..Len(d) |-> d[Len(d) + 1 - i]]

\* while let Some(message) = pop_front(): the messages handed to the handle
Deliverable(job, queue) ==
  SelectSeq(queue, LAMBDA m : should_deliver(job, m, job.task_hash))

\* enqueued_messages.remove(task_hash), remove(ssid) from the inner map, and
\* the inner map put back unless it is empty
TakeQueue(buf, job) ==
  IF job.task_hash \notin DOMAIN buf THEN buf
  ELSE LET inner == buf[job.task_hash]
           others == Restrict(inner, DOMAIN inner \ {job.ssid})
       IN  IF DOMAIN others = {}
           THEN Restrict(buf, DOMAIN buf \ {job.task_hash})
           ELSE [buf EXCEPT ![job.task_hash] = others]

\* HashSet::insert with Job's Eq and Hash on task_hash: a Job equal to one of
\* the set is not inserted (and is dropped)
Rejected(active, job) == \E a \in active : a.task_hash = job.task_hash
\* faulty variant, for sensitivity: the insert respects the max_tasks limit
HashSetInsert_limited(active, job) ==
  IF Rejected(active, job) \/ Cardinality(active) >= max_tasks
  THEN active ELSE active \cup {job}

HashSetInsert(active, job) ==
  IF Rejected(active, job) THEN active ELSE active \cup {job}

\* st = [active, enqueued, buffer, remote, calls]; start_ok is what
\* job.handle.start() answers.  Returns st after the call.
start_job_unconditional(job, start_ok, st) ==
  LET delivered == IF start_ok THEN Deliverable(job, QueueFor(st.buffer, job)) ELSE <<>>
      active1 == HashSetInsert(st.active, job)
      dropped == job \notin active1
  IN  [st EXCEPT
         !.active = active1,
         !.buffer = IF start_ok THEN TakeQueue(@, job) ELSE @,
         !.remote = [@ EXCEPT ![job.id] =
                       [starts |-> @.starts + 1,
                        drops |-> @.drops + (IF dropped THEN 1 ELSE 0),
                        spawned |-> @.spawned + 1]],
         !.calls = @ \o <<Call(job.id, "start", IF start_ok THEN "Ok" ELSE "Err", 0)>>
                     \o [i \in 1..Len(delivered) |->
                           Call(job.id, "deliver_message", "", delivered[i].id)]
                     \o (IF dropped THEN DropCalls(<<job>>) ELSE <<>>)
                     \o <<Call(job.id, "spawn", "", 0)>>]

Inner(act, enq, buf, rem) ==
  [active |-> act, enqueued |-> enq, buffer |-> buf, remote |-> rem, calls |-> <<>>]
\* faulty variant, for sensitivity: push_front
push_back_front(enqueued, job) == <<job>> \o enqueued

\* --------------------------------------------------------------- push_task
\* enqueued_tasks.push_back(job)
push_back(enqueued, job) == Append(enqueued, job)

\* PollMethod::Interval: to_handler.send fails only once the receiver is gone,
\* and the handler task that owns it never returns.  The state after the call,
\* with the call's result.
push_task(task_hash, ssid, session_id, associated_block_id, start_ok, force_start) ==
  LET job == Job(njobs + 1, task_hash, ssid, session_id, associated_block_id)
      st0 == Inner(active_tasks, enqueued_tasks, enqueued_messages,
                   Append(remote, NewRemote))
  IN  IF force_start
      THEN start_job_unconditional(job, start_ok, st0)
      ELSE [st0 EXCEPT !.enqueued = push_back(@, job)]

\* the WorkManager after a push_task that left it as st; returned is what
\* on_block_finalized returned in the same step, if it did
Pushed(job, st, force_start, returned) ==
  /\ njobs' = njobs + 1
  /\ active_tasks' = st.active
  /\ enqueued_tasks' = st.enqueued
  /\ enqueued_messages' = st.buffer
  /\ remote' = st.remote
  /\ last' = [Op(IF force_start THEN "push_task_force" ELSE "push_task", job, "Ok",
                 st.calls) EXCEPT !.returned = returned]

PushTask ==
  /\ njobs < MaxJobs
  /\ njobs + nmsgs < MaxInputs
  /\ \E h \in NextOf(seen.fingerprints, Fingerprints), s \in NextOf(seen.ssids, Ssids),
        sid \in NextOf(seen.sessions, Sessions), ok \in BOOLEAN, f \in BOOLEAN :
       /\ (~f => ok)
       /\ Pushed(Job(njobs + 1, h, s, sid, clock),
                 push_task(h, s, sid, clock, ok, f), f, "")
       /\ Seen(h, s, sid)
  /\ UNCHANGED <<max_tasks, gs, clock, done, stalled, nmsgs, lock, obf>>

\* -------------------------------------------------------------------- poll
\* for _ in 0..tasks_to_start { pop_front, start_job_unconditional };
\* fails holds the ids of the Jobs whose handle.start() answers Err
\* enqueued_tasks.pop_front(): the Job taken and the queue left
pop_front(enqueued) == [job |-> Head(enqueued), rest |-> Tail(enqueued)]

RECURSIVE StartLoop(_, _, _)
StartLoop(n, fails, st) ==
  IF n = 0 \/ st.enqueued = <<>> THEN st
  ELSE LET popped == pop_front(st.enqueued)
       IN  StartLoop(n - 1, fails,
             start_job_unconditional(popped.job, popped.job.id \notin fails,
                                     [st EXCEPT !.enqueued = popped.rest]))

\* faulty variant, for sensitivity: no message is purged
RetainInner_keep(inner, now) == inner

\* queue.retain(acceptable wrt now), then removal of the empty inner queues
RetainInner(inner, now) ==
  LET kept == [s \in DOMAIN inner |->
                 SelectSeq(inner[s], LAMBDA m :
                   associated_block_id_acceptable(now, m.associated_block_id))]
  IN  Restrict(kept, {s \in DOMAIN inner : kept[s] # <<>>})

\* the three buffer passes at the end of poll
RetainMessages(buf, now) ==
  LET kept == [h \in DOMAIN buf |-> RetainInner(buf[h], now)]
  IN  Restrict(kept, {h \in DOMAIN buf : DOMAIN kept[h] # {}})
\* faulty variant, for sensitivity: a stalled Job is kept
Reaped_done_only(active) == {j \in active : j.id \in done}

\* the closure of active_tasks.retain answers false: the Job is stalled, or
\* it is done
Reaped(active) == {j \in active : j.id \in stalled \/ j.id \in done}

\* the calls of the retain: shutdown(Stalled) for a stalled Job, and the drop of
\* every Job the closure answers false for
RECURSIVE RetainCalls(_)
RetainCalls(js) ==
  IF js = <<>> THEN <<>>
  ELSE (IF Head(js).id \in stalled
        THEN <<Call(Head(js).id, "shutdown", "Stalled", 0)>> ELSE <<>>)
       \o DropCalls(<<Head(js)>>)
       \o RetainCalls(Tail(js))
\* faulty variant, for sensitivity: the room left is not looked at
tasks_to_start_full(active_len) == max_tasks

tasks_to_start(active_len) == saturating_sub(max_tasks, active_len)

poll(fails) ==
  LET now == clock
      gone == Reaped(active_tasks)
      retained == active_tasks \ gone
      st0 == [Inner(retained, enqueued_tasks, enqueued_messages,
                    Dropped(remote, Ids(gone)))
                EXCEPT !.calls = RetainCalls(JobSeq(gone))]
      st1 == StartLoop(tasks_to_start(Cardinality(retained)), fails, st0)
  IN  /\ active_tasks' = st1.active
      /\ enqueued_tasks' = st1.enqueued
      /\ enqueued_messages' = RetainMessages(st1.buffer, now)
      /\ remote' = st1.remote
      /\ done' = done \ Ids(gone)
      /\ stalled' = stalled \ Ids(gone)
      /\ last' = Op("poll", NoArg, "Ok", st1.calls)

Poll ==
  /\ \E fails \in SUBSET Ids(SeqToSet(enqueued_tasks)) : poll(fails)
  /\ UNCHANGED <<max_tasks, gs, clock, njobs, nmsgs, seen, lock, obf>>

\* --------------------------------------------------------- deliver_message
\* position in enqueued_tasks of the first Job the message is for, 0 if none
FirstEnqueued(msg, hash) ==
  LET hits == {i \in 1..Len(enqueued_tasks) :
                 should_deliver(enqueued_tasks[i], msg, hash)}
  IN  IF hits = {} THEN 0 ELSE CHOOSE i \in hits : \A k \in hits : i <= k

\* active_tasks holds at most one Job per task_hash, so at most one matches
ActiveMatches(msg, hash) ==
  {j \in active_tasks : should_deliver(j, msg, hash)}
\* faulty variant, for sensitivity: active_tasks is scanned before enqueued_tasks
DeliveryTarget_active_first(msg, hash) ==
  LET e == FirstEnqueued(msg, hash)
      a == ActiveMatches(msg, hash)
  IN  IF a # {} THEN (CHOOSE j \in a : TRUE).id
      ELSE IF e # 0 THEN enqueued_tasks[e].id ELSE 0

\* the two scans: the id of the Job whose handle gets the message, 0 if none
DeliveryTarget(msg, hash) ==
  LET e == FirstEnqueued(msg, hash)
      a == ActiveMatches(msg, hash)
  IN  IF e # 0 THEN enqueued_tasks[e].id
      ELSE IF a # {} THEN (CHOOSE j \in a : TRUE).id ELSE 0

\* enqueued_messages.entry(hash).or_default().entry(ssid).or_default().push_back(msg)
Park(buf, msg, hash) ==
  LET inner == IF hash \in DOMAIN buf THEN buf[hash] ELSE <<>>
      queue == IF msg.ssid \in DOMAIN inner THEN inner[msg.ssid] ELSE <<>>
      inner1 == [s \in DOMAIN inner \cup {msg.ssid} |->
                   IF s = msg.ssid THEN Append(queue, msg) ELSE inner[s]]
  IN  [h \in DOMAIN buf \cup {hash} |-> IF h = hash THEN inner1 ELSE buf[h]]

deliver_message(msg, message_task_hash) ==
  LET target == DeliveryTarget(msg, message_task_hash)
      arg == [id |-> msg.id, msg |-> msg, task_hash |-> message_task_hash]
  IN  IF target # 0
      THEN /\ last' = Op("deliver_message", arg, "Ok",
                         <<Call(target, "deliver_message", "", msg.id)>>)
           /\ UNCHANGED enqueued_messages
      ELSE /\ enqueued_messages' = Park(enqueued_messages, msg, message_task_hash)
           /\ last' = Op("deliver_message", arg, "Ok", <<>>)

DeliverMessage ==
  /\ nmsgs < MaxMsgs
  /\ njobs + nmsgs < MaxInputs
  /\ \E h \in NextOf(seen.fingerprints, Fingerprints), s \in NextOf(seen.ssids, Ssids),
        sid \in NextOf(seen.sessions, Sessions), b \in Blocks :
       /\ deliver_message([id |-> nmsgs + 1, session_id |-> sid, ssid |-> s,
                           associated_block_id |-> b], h)
       /\ Seen(h, s, sid)
  /\ nmsgs' = nmsgs + 1
  /\ UNCHANGED <<max_tasks, gs, clock, njobs, remote, done, stalled, active_tasks, enqueued_tasks,
                 lock, obf>>

\* ------------------------------------------------------ force_shutdown_all
force_shutdown_all ==
  LET all == active_tasks \cup SeqToSet(enqueued_tasks)
  IN  /\ remote' = Dropped(remote, Ids(all))
      /\ active_tasks' = {}
      /\ enqueued_tasks' = <<>>
      /\ enqueued_messages' = <<>>
      /\ done' = {}
      /\ stalled' = {}
      /\ last' = Op("force_shutdown_all", NoArg, "Ok", DropCalls(JobSeq(all)))

ForceShutdownAll ==
  /\ force_shutdown_all
  /\ UNCHANGED <<max_tasks, gs, clock, njobs, nmsgs, seen, lock, obf>>

\* ------------------------------------------------------------- environment
\* a new block becomes the latest header
NewBlock ==
  /\ clock < MaxBlock
  /\ clock' = clock + 1
  /\ last' = Op("environment", NoArg, "Ok", <<>>)
  /\ UNCHANGED <<max_tasks, gs, njobs, remote, done, stalled, active_tasks, enqueued_tasks,
                 enqueued_messages, nmsgs, seen, lock, obf>>

\* the protocol of an active Job ends: handle.is_done() from now on
ProtocolDone ==
  /\ \E j \in active_tasks :
       /\ j.id \notin done
       /\ done' = done \cup {j.id}
  /\ last' = Op("environment", NoArg, "Ok", <<>>)
  /\ UNCHANGED <<max_tasks, gs, clock, njobs, remote, stalled, active_tasks, enqueued_tasks,
                 enqueued_messages, nmsgs, seen, lock, obf>>

\* an active Job times out: handle.signing_has_stalled(now) from now on
ProtocolStalls ==
  /\ \E j \in active_tasks :
       /\ j.id \notin stalled
       /\ stalled' = stalled \cup {j.id}
  /\ last' = Op("environment", NoArg, "Ok", <<>>)
  /\ UNCHANGED <<max_tasks, gs, clock, njobs, remote, done, active_tasks, enqueued_tasks,
                 enqueued_messages, nmsgs, seen, lock, obf>>

\* ---------------------------------------------------------- SigningManager
keygen_lock ==
  /\ lock' = TRUE
  /\ last' = Op("keygen_lock", NoArg, "Ok", <<>>)
  /\ UNCHANGED <<max_tasks, gs, clock, njobs, remote, done, stalled, active_tasks, enqueued_tasks,
                 enqueued_messages, nmsgs, seen, obf>>

keygen_unlock ==
  /\ lock' = FALSE
  /\ last' = Op("keygen_unlock", NoArg, "Ok", <<>>)
  /\ UNCHANGED <<max_tasks, gs, clock, njobs, remote, done, stalled, active_tasks, enqueued_tasks,
                 enqueued_messages, nmsgs, seen, obf>>

job_exists(hash) ==
  \/ \E j \in active_tasks : j.task_hash = hash
  \/ \E i \in 1..Len(enqueued_tasks) : enqueued_tasks[i].task_hash = hash

can_submit_more_tasks(enqueued) == Len(enqueued) < max_enqueued_tasks

\* what get_unsigned_proposal_batches can answer once sorted by timestamp:
\* batches with distinct hashes, each with typed_chain_id None (force) or not
ProposalBatches ==
  UNION {{[i \in 1..n |-> [hash |-> hs[i], force |-> fs[i]]] :
            hs \in {h \in [1..n -> Fingerprints] :
                      \A i, k \in 1..n : i # k => h[i] # h[k]},
            fs \in [1..n -> BOOLEAN]} : n \in 0..NumFingerprints}

\* faulty variant, for sensitivity: the flag is not looked at
lock_load_clear == FALSE

\* self.lock.load(Ordering::SeqCst)
lock_load == lock

\* on_block_finalized up to its first await: the keygen flag is read
OnBlockFinalized ==
  /\ obf.pc = "idle"
  /\ IF lock_load
     THEN /\ obf' = Idle
          /\ last' = [Op("on_block_finalized", NoArg, "Ok", <<>>) EXCEPT !.returned = "Ok"]
     ELSE /\ obf' = [Idle EXCEPT !.pc = "chain", !.header = clock]
          /\ last' = Op("on_block_finalized", NoArg, "Ok", <<>>)
  /\ UNCHANGED <<max_tasks, gs, clock, njobs, remote, done, stalled, active_tasks, enqueued_tasks,
                 enqueued_messages, nmsgs, seen, lock>>

\* resumed with the answers of get_dkg_pub_key, get_party_index and
\* get_unsigned_proposal_batches; the batches are filtered with job_exists
ObfChain ==
  /\ obf.pc = "chain"
  /\ \/ /\ obf' = Idle                        \* not in the set of best authorities
        /\ last' = [Op("chain_queries", NoArg, "Ok", <<>>) EXCEPT !.returned = "Ok"]
        /\ UNCHANGED seen
     \/ /\ obf' = Idle                        \* failed to get unsigned proposals
        /\ last' = [Op("chain_queries", NoArg, "Err", <<>>) EXCEPT !.returned = "Err"]
        /\ UNCHANGED seen
     \/ \E sid \in NextOf(seen.sessions, Sessions), res \in ProposalBatches :
          LET filtered == SelectSeq(res, LAMBDA b : ~job_exists(b.hash))
          IN  /\ IF filtered = <<>>
                 THEN /\ obf' = Idle
                      /\ last' = [Op("chain_queries", NoArg, "Ok", <<>>) EXCEPT !.returned = "Ok"]
                 ELSE /\ obf' = [obf EXCEPT !.pc = "authorities", !.session_id = sid,
                                            !.unsigned_proposals = filtered]
                      /\ last' = Op("chain_queries", NoArg, "Ok", <<>>)
              /\ seen' = [seen EXCEPT !.sessions = Max(@, sid)]
  /\ UNCHANGED <<max_tasks, gs, clock, njobs, remote, done, stalled, active_tasks, enqueued_tasks,
                 enqueued_messages, nmsgs, lock>>

\* The two loops from (batch, ssid), exclusive ((0, K) is the start), up to the
\* next await of initialize_signing_protocol or to the return.  generate_signers
\* answers a set with party_i in it for the (batch, ssid) the loops stop at, and
\* an error or a set without party_i for those they pass.  A new batch is
\* entered only if can_submit_more_tasks; enqueued is the queue as the loops
\* see it.  The set of the (batch, ssid) the loops can stop at.
ObfLoops(batch, ssid, enqueued) ==
  LET n == Len(obf.unsigned_proposals)
      same == {q \in {batch} \X Ssids : q[2] > ssid}
      later == {q \in (1..n) \X Ssids : q[1] > batch}
  IN  same \cup (IF can_submit_more_tasks(enqueued) THEN later ELSE {})

Suspended(q) == [obf EXCEPT !.pc = "init", !.batch = q[1], !.ssid = q[2]]

\* resumed with the answers of get_best_authorities and get_signature_threshold
ObfAuthorities ==
  /\ obf.pc = "authorities"
  /\ \/ \E q \in ObfLoops(0, MAX_POTENTIAL_SIGNING_SETS_PER_PROPOSAL, enqueued_tasks) :
          /\ obf' = Suspended(q)
          /\ last' = Op("chain_queries", NoArg, "Ok", <<>>)
     \/ /\ obf' = Idle
        /\ last' = [Op("chain_queries", NoArg, "Ok", <<>>) EXCEPT !.returned = "Ok"]
  /\ UNCHANGED <<max_tasks, gs, clock, njobs, remote, done, stalled, active_tasks, enqueued_tasks,
                 enqueued_messages, nmsgs, seen, lock>>

\* resumed with the answer of initialize_signing_protocol: push_task, then on
\* with the loops; or the error is handled and returned
ObfInit ==
  /\ obf.pc = "init"
  /\ \/ /\ obf' = Idle
        /\ last' = [Op("initialize_signing_protocol", NoArg, "Err", <<>>) EXCEPT !.returned = "Err"]
        /\ UNCHANGED <<njobs, remote, active_tasks, enqueued_tasks, enqueued_messages>>
     \/ /\ njobs < MaxSigningJobs
        /\ \E ok \in BOOLEAN :
             LET b == obf.unsigned_proposals[obf.batch]
                 job == Job(njobs + 1, b.hash, obf.ssid, obf.session_id, obf.header)
                 st == push_task(b.hash, obf.ssid, obf.session_id, obf.header, ok, b.force)
             IN  /\ (~b.force => ok)
                 /\ \/ \E q \in ObfLoops(obf.batch, obf.ssid, st.enqueued) :
                         /\ obf' = Suspended(q)
                         /\ Pushed(job, st, b.force, "")
                    \/ /\ obf' = Idle
                       /\ Pushed(job, st, b.force, "Ok")
  /\ UNCHANGED <<max_tasks, gs, clock, done, stalled, nmsgs, seen, lock>>

\* -------------------------------------------------------- generate_signers
Parties == 0..MaxParty
Thresholds == 0..MaxThreshold
Seeds == 1..NumSeeds

\* the sequences of pairwise distinct elements of S
Lists(S) ==
  UNION {{l \in [1..n -> S] : \A i, k \in 1..n : i # k => l[i] # l[k]} :
           n \in 0..Cardinality(S)}

\* KeygenPartyId::try_from(u16) answers Ok: a party index is not zero
valid_party(i) == i # 0

\* Iterator::take(n)
take(list, n) == SubSeq(list, 1, IF n < Len(list) THEN n ELSE Len(list))

\* dkg_primitives::utils::select_random_set: amount entries of set, at
\* positions that are a function of the seed; an error if set has fewer
select_random_set(seed, set, amount) ==
  IF Len(set) < amount THEN [ok |-> FALSE, set |-> <<>>]
  ELSE [ok |-> TRUE,
        set |-> [i \in 1..amount |-> set[((seed + i - 2) % Len(set)) + 1]]]

\* set.into_iter().flat_map(KeygenPartyId::try_from).collect(): the entries
\* the conversion fails for are left out
flat_map_try_from(set) == SelectSeq(set, LAMBDA i : valid_party(i))

\* chain says which of get_unjailed_signers and get_jailed_signers fails
generate_signers(seed, t, chain, unjailed, jailed) ==
  IF chain = "unjailed_err" THEN [result |-> "Err", set |-> <<>>]
  ELSE IF Len(unjailed) <= t /\ chain = "jailed_err"
  THEN [result |-> "Err", set |-> <<>>]
  ELSE LET final_set == IF Len(unjailed) <= t
                        THEN unjailed \o take(jailed, t + 1 - Len(unjailed))
                        ELSE unjailed
           selected == select_random_set(seed, final_set, t + 1)
       IN  IF selected.ok
           THEN [result |-> "Ok", set |-> flat_map_try_from(selected.set)]
           ELSE [result |-> "Err", set |-> <<>>]

\* a call of generate_signers on the answers of the chain client
InitGS ==
  \E t \in Thresholds, seed \in Seeds, chain \in {"Ok", "unjailed_err", "jailed_err"},
     unjailed \in Lists(Parties), jailed \in Lists(Parties) :
    /\ \A i \in 1..Len(unjailed), k \in 1..Len(jailed) : unjailed[i] # jailed[k]
    /\ new(MaxTasksNarrow,
           [NoCall EXCEPT !.pc = "call", !.t = t, !.seed = seed, !.chain = chain,
                          !.unjailed = unjailed, !.jailed = jailed])

GenerateSigners ==
  /\ gs.pc = "call"
  /\ LET r == generate_signers(gs.seed, gs.t, gs.chain, gs.unjailed, gs.jailed)
     IN  gs' = [gs EXCEPT !.pc = "returned", !.result = r.result, !.set = r.set]
  /\ UNCHANGED <<max_tasks, clock, njobs, remote, done, stalled, active_tasks,
                 enqueued_tasks, enqueued_messages, nmsgs, seen, lock, obf, last>>

\* ---------------------------------------------------------------- Next/Spec
Next ==
  \/ PushTask
  \/ Poll
  \/ DeliverMessage
  \/ ForceShutdownAll
  \/ NewBlock
  \/ ProtocolDone
  \/ ProtocolStalls

Spec == Init /\ [][Next]_vars

\* The SigningManager driving the WorkManager: Jobs come from
\* on_block_finalized only.
NextSM ==
  \/ keygen_lock
  \/ keygen_unlock
  \/ OnBlockFinalized
  \/ ObfChain
  \/ ObfAuthorities
  \/ ObfInit
  \/ Poll
  \/ ForceShutdownAll
  \/ NewBlock
  \/ ProtocolDone
  \/ ProtocolStalls

SpecSM == Init /\ [][NextSM]_vars

\* The WorkManager with room for MaxTasksWide active Jobs.
SpecWide == InitWide /\ [][Next]_vars

\* PollMethod::Interval: the handler task spawned by WorkManager::new calls poll
\* on every tick of the interval and on every task hash push_task sends it, so
\* a poll that would change something is eventually run; and every active Job
\* eventually reports done or stalled.
\* Admission does not depend on the messages or on the block number: the
\* WorkManager of SpecWide with neither message traffic nor new blocks.
NextLive ==
  \/ PushTask
  \/ Poll
  \/ ForceShutdownAll
  \/ ProtocolDone
  \/ ProtocolStalls

\* ENABLED <<Poll>>_vars written out: a poll would change the state, because
\* the last operation was not a poll without calls, or there is a Job to reap,
\* a Job to start or a message to purge
PollEnabled ==
  \/ last # Op("poll", NoArg, "Ok", <<>>)
  \/ Reaped(active_tasks) # {}
  \/ tasks_to_start(Cardinality(active_tasks)) > 0 /\ enqueued_tasks # <<>>
  \/ RetainMessages(enqueued_messages, clock) # enqueued_messages

\* WF_vars(Poll), with PollEnabled for ENABLED <<Poll>>_vars
PollFair == []<>(~PollEnabled) \/ []<><<Poll>>_vars

SpecLive ==
  /\ InitWide
  /\ [][NextLive]_vars
  /\ PollFair
  /\ WF_vars(ProtocolDone \/ ProtocolStalls)

\* generate_signers on every input of the bounded sets.
NextGS == GenerateSigners

SpecGS == InitGS /\ [][NextGS]_vars

\* ================================================================== claims
\* the queue of enqueued_messages for (task hash, ssid), empty if there is none
QueueAt(buf, hash, ssid) ==
  IF hash \in DOMAIN buf /\ ssid \in DOMAIN buf[hash] THEN buf[hash][ssid] ELSE <<>>

\* every message enqueued_messages holds
Buffered(buf) ==
  UNION {UNION {SeqToSet(buf[h][s]) : s \in DOMAIN buf[h]} : h \in DOMAIN buf}

\* the messages handed to the handle of Job id by the calls, in order
DeliveriesTo(id, calls) ==
  LET d == SelectSeq(calls, LAMBDA c : c.call = "deliver_message" /\ c.job = id)
  IN  [i \in 1..Len(d) |-> d[i].msg]

\* the Jobs the calls start, in order
Starts(calls) ==
  LET d == SelectSeq(calls, LAMBDA c : c.call = "start")
  IN  [i \in 1..Len(d) |-> d[i].job]

\* msg, sent for task hash, is for job
IsFor(job, msg, hash) ==
  /\ job.session_id = msg.session_id
  /\ job.task_hash = hash
  /\ job.ssid = msg.ssid
  /\ associated_block_id_acceptable(job.associated_block_id, msg.associated_block_id)

\* C1: each fingerprint is held by at most one Job across active_tasks and
\* enqueued_tasks: no two Jobs of enqueued_tasks share a task hash, and no task
\* hash is in both active_tasks and enqueued_tasks.
C1_Uniqueness ==
  /\ \A i, k \in 1..Len(enqueued_tasks) :
       i # k => enqueued_tasks[i].task_hash # enqueued_tasks[k].task_hash
  /\ \A a \in active_tasks : \A i \in 1..Len(enqueued_tasks) :
       a.task_hash # enqueued_tasks[i].task_hash

\* C2: in every reachable state enqueued_tasks holds at most max_enqueued_tasks
\* Jobs.
C2_EnqueuedBound == Len(enqueued_tasks) <= max_enqueued_tasks

\* C3: push_task with force_start = false, called when enqueued_tasks holds
\* max_enqueued_tasks Jobs, returns an error and does not add the Job.
C3_AdmissionOverflow ==
  [][(last'.op = "push_task" /\ Len(enqueued_tasks) = max_enqueued_tasks)
       => (last'.result = "Err" /\ enqueued_tasks' = enqueued_tasks)]_vars

\* C4: active_tasks holds at most max_tasks Jobs at the start, and no step
\* other than a force-start push takes it above max_tasks; a poll starts at
\* most as many Jobs as the Jobs it retains leave room for.
C4_ActiveBound ==
  /\ Cardinality(active_tasks) <= max_tasks
  /\ [][/\ (last'.op # "push_task_force" /\ Cardinality(active_tasks) <= max_tasks)
             => Cardinality(active_tasks') <= max_tasks
        /\ last'.op = "poll"
             => \/ Len(Starts(last'.calls)) = 0
                \/ Len(Starts(last'.calls)) + Cardinality(active_tasks \cap active_tasks')
                     <= max_tasks]_vars

C4_Witness ==
  /\ last.op = "poll"
  /\ Len(Starts(last.calls)) > 0
  /\ Cardinality(active_tasks) = max_tasks
  /\ enqueued_tasks # <<>>

\* C5: a non-forced push_task appends the Job at the back of enqueued_tasks; a
\* poll starts a prefix of enqueued_tasks in queue order and leaves the rest in
\* order; and when no active Job is stalled or done and the task hashes held are
\* pairwise distinct, the poll moves exactly the first
\* min(|enqueued_tasks|, max_tasks - |active_tasks|) Jobs into active_tasks.
C5_FifoAdmission ==
  [][/\ last'.op = "push_task"
          => /\ enqueued_tasks' = Append(enqueued_tasks, last'.arg)
             /\ last'.arg.id = njobs'
             /\ active_tasks' = active_tasks
     /\ last'.op = "poll"
          => LET n == Len(enqueued_tasks)
                 k == n - Len(enqueued_tasks')
                 room == IF max_tasks > Cardinality(active_tasks)
                         THEN max_tasks - Cardinality(active_tasks) ELSE 0
                 m == IF n < room THEN n ELSE room
                 held == active_tasks \cup SeqToSet(enqueued_tasks)
             IN  /\ k >= 0
                 /\ enqueued_tasks' = SubSeq(enqueued_tasks, k + 1, n)
                 /\ Starts(last'.calls) = [i \in 1..k |-> enqueued_tasks[i].id]
                 /\ ( /\ \A a \in active_tasks : a.id \notin stalled /\ a.id \notin done
                      /\ \A x, y \in held : x.task_hash = y.task_hash => x = y
                      /\ \A i, j \in 1..n : enqueued_tasks[i] = enqueued_tasks[j] => i = j )
                      => /\ active_tasks' =
                              active_tasks \cup {enqueued_tasks[i] : i \in 1..m}
                         /\ enqueued_tasks' = SubSeq(enqueued_tasks, m + 1, n)]_vars

C5_Witness ==
  /\ last.op = "poll"
  /\ Ids(active_tasks) = {1}
  /\ Len(enqueued_tasks) = 2
  /\ enqueued_tasks[1].id = 2
  /\ enqueued_tasks[2].id = 3

\* C6: push_task(f, force_start = true) with f held by no Job of active_tasks
\* or enqueued_tasks puts the Job into active_tasks in the same step, whatever
\* the size of active_tasks, which grows by one, and leaves enqueued_tasks as
\* it was.
C6_ForceStartBypass ==
  [][(/\ last'.op = "push_task_force"
      /\ \A j \in active_tasks \cup SeqToSet(enqueued_tasks) :
           j.task_hash # last'.arg.task_hash)
       => /\ last'.arg \in active_tasks'
          /\ active_tasks' = active_tasks \cup {last'.arg}
          /\ Cardinality(active_tasks') = Cardinality(active_tasks) + 1
          /\ enqueued_tasks' = enqueued_tasks]_vars

C6_Witness ==
  /\ last.op = "push_task_force"
  /\ last.arg \in active_tasks
  /\ Cardinality(active_tasks) = max_tasks + 1

\* C7: a message passed to deliver_message while no Job matches is parked at
\* the back of the queue for its (task hash, ssid); when a Job is started, the
\* messages of the queue for its (task hash, ssid) that are for it (same
\* session id, acceptable block id) are handed to its handle once each, in the
\* order they were parked, and the queue is gone afterwards.
C7_BufferedFifo ==
  [][/\ ( /\ last'.op = "deliver_message"
          /\ \A j \in active_tasks \cup SeqToSet(enqueued_tasks) :
               ~IsFor(j, last'.arg.msg, last'.arg.task_hash) )
          => QueueAt(enqueued_messages', last'.arg.task_hash, last'.arg.msg.ssid)
               = Append(QueueAt(enqueued_messages, last'.arg.task_hash,
                                last'.arg.msg.ssid), last'.arg.msg)
     /\ last'.op \in {"poll", "push_task_force"}
          => \A i \in 1..Len(last'.calls) :
               LET c == last'.calls[i]
                   pushed == IF last'.op = "push_task_force" THEN {last'.arg} ELSE {}
                   jobOf(id) == CHOOSE j \in SeqToSet(enqueued_tasks) \cup pushed : j.id = id
                   job == jobOf(c.job)
                   first == \A k \in 1..(i - 1) :
                              ~ /\ last'.calls[k].call = "start"
                                /\ last'.calls[k].arg = "Ok"
                                /\ jobOf(last'.calls[k].job).task_hash = job.task_hash
                                /\ jobOf(last'.calls[k].job).ssid = job.ssid
                   queue == QueueAt(enqueued_messages, job.task_hash, job.ssid)
                   mine == SelectSeq(queue, LAMBDA m : IsFor(job, m, job.task_hash))
               IN  (c.call = "start" /\ c.arg = "Ok")
                     => /\ DeliveriesTo(c.job, last'.calls) =
                             IF first THEN [x \in 1..Len(mine) |-> mine[x].id] ELSE <<>>
                        /\ QueueAt(enqueued_messages', job.task_hash, job.ssid) = <<>>]_vars

C7_Witness ==
  /\ last.op \in {"poll", "push_task_force"}
  /\ \E i, k \in 1..Len(last.calls) :
       /\ i < k
       /\ last.calls[i].call = "deliver_message" /\ last.calls[i].msg = 1
       /\ last.calls[k].call = "deliver_message" /\ last.calls[k].msg = 2
       /\ last.calls[i].job = last.calls[k].job

\* C8: deliver_message(msg, f) either hands msg to the handle of exactly one
\* Job the message is for, a Job of enqueued_tasks if there is one and else a
\* Job of active_tasks, and leaves enqueued_messages alone; or, when no Job
\* matches, calls no handle and appends msg at the back of the queue for
\* (f, msg.ssid); it never changes active_tasks or enqueued_tasks.
C8_Routing ==
  [][last'.op = "deliver_message"
       => LET msg == last'.arg.msg
              hash == last'.arg.task_hash
              enq == {j \in SeqToSet(enqueued_tasks) : IsFor(j, msg, hash)}
              act == {j \in active_tasks : IsFor(j, msg, hash)}
          IN  /\ active_tasks' = active_tasks
              /\ enqueued_tasks' = enqueued_tasks
              /\ IF enq \cup act = {}
                 THEN /\ last'.calls = <<>>
                      /\ \A h \in Fingerprints, s \in Ssids :
                           QueueAt(enqueued_messages', h, s) =
                             IF h = hash /\ s = msg.ssid
                             THEN Append(QueueAt(enqueued_messages, h, s), msg)
                             ELSE QueueAt(enqueued_messages, h, s)
                 ELSE /\ Len(last'.calls) = 1
                      /\ last'.calls[1].call = "deliver_message"
                      /\ last'.calls[1].msg = msg.id
                      /\ last'.calls[1].job \in Ids(IF enq # {} THEN enq ELSE act)
                      /\ enqueued_messages' = enqueued_messages]_vars

C8_Witness ==
  /\ last.op = "deliver_message"
  /\ Len(last.calls) = 1
  /\ last.calls[1].job \in Ids(SeqToSet(enqueued_tasks))
  /\ \E a \in active_tasks : IsFor(a, last.arg.msg, last.arg.task_hash)

\* C9: a buffered message whose associated_block_id is not acceptable relative
\* to the latest block number is never handed to a handle when a Job is started
\* by poll or by a force-start push.
C9_NoStaleDelivery ==
  [][last'.op \in {"poll", "push_task_force"}
       => \A i \in 1..Len(last'.calls) :
            last'.calls[i].call = "deliver_message"
              => \A m \in Buffered(enqueued_messages) :
                   m.id = last'.calls[i].msg
                     => associated_block_id_acceptable(clock, m.associated_block_id)]_vars

\* C10: a poll removes from active_tasks every Job whose handle reports stalled
\* and calls shutdown(Stalled) on its handle; a Job that is neither stalled nor
\* done is still in active_tasks after the poll.
C10_StallEviction ==
  [][last'.op = "poll"
       => /\ \A j \in active_tasks : j.id \in stalled
               => /\ j \notin active_tasks'
                  /\ \E i \in 1..Len(last'.calls) :
                       /\ last'.calls[i].job = j.id
                       /\ last'.calls[i].call = "shutdown"
                       /\ last'.calls[i].arg = "Stalled"
          /\ \A j \in active_tasks : (j.id \notin stalled /\ j.id \notin done)
               => j \in active_tasks']_vars

C10_Witness ==
  /\ last.op = "poll"
  /\ \E i \in 1..Len(last.calls) :
       /\ last.calls[i].call = "shutdown"
       /\ last.calls[i].arg = "Stalled"
       /\ last.calls[i].job \notin Ids(active_tasks)

\* the Job of enqueued_tasks with the id
EnqueuedJob(id) == CHOOSE j \in SeqToSet(enqueued_tasks) : j.id = id

\* the calls of one kind, with one argument, on the handle of Job id
CallsOn(id, call, arg, calls) ==
  SelectSeq(calls, LAMBDA c : c.job = id /\ c.call = call /\ c.arg = arg)

\* the Jobs the WorkManager holds
Held(active, enqueued) == active \cup SeqToSet(enqueued)

\* C11: immediately after a poll at block number now, enqueued_messages holds
\* no message that is not acceptable relative to now, no empty queue and no
\* task hash whose map is empty; and every queue that was not taken for a Job
\* the poll started holds its messages acceptable relative to now, in the
\* order they had.
C11_BufferHygiene ==
  [][last'.op = "poll"
       => /\ \A m \in Buffered(enqueued_messages') :
               associated_block_id_acceptable(clock, m.associated_block_id)
          /\ \A h \in DOMAIN enqueued_messages' :
               /\ DOMAIN enqueued_messages'[h] # {}
               /\ \A s \in DOMAIN enqueued_messages'[h] : enqueued_messages'[h][s] # <<>>
          /\ \A h \in DOMAIN enqueued_messages : \A s \in DOMAIN enqueued_messages[h] :
               LET taken == \E i \in 1..Len(last'.calls) :
                              /\ last'.calls[i].call = "start"
                              /\ last'.calls[i].arg = "Ok"
                              /\ EnqueuedJob(last'.calls[i].job).task_hash = h
                              /\ EnqueuedJob(last'.calls[i].job).ssid = s
               IN  ~taken
                     => QueueAt(enqueued_messages', h, s) =
                          SelectSeq(enqueued_messages[h][s], LAMBDA m :
                            associated_block_id_acceptable(clock, m.associated_block_id))]_vars

C11_Witness ==
  /\ last.op = "poll"
  /\ clock = MaxBlock
  /\ \E h \in DOMAIN enqueued_messages : \E s \in DOMAIN enqueued_messages[h] :
       /\ Len(enqueued_messages[h][s]) = 2
       /\ enqueued_messages[h][s][1].id = 1
       /\ enqueued_messages[h][s][2].id = 2

\* C12: a poll called while active_tasks holds fewer than max_tasks Jobs and
\* enqueued_tasks is not empty leaves enqueued_tasks shorter, and every Job it
\* takes out of enqueued_tasks is in active_tasks when it returns.
C12_AdmissionLiveness ==
  [][(/\ last'.op = "poll"
      /\ Cardinality(active_tasks) < max_tasks
      /\ enqueued_tasks # <<>>)
       => /\ Len(enqueued_tasks') < Len(enqueued_tasks)
          /\ \A j \in SeqToSet(enqueued_tasks) :
               j \notin SeqToSet(enqueued_tasks') => j \in active_tasks']_vars

\* C13: a Job that leaves the WorkManager (it was in active_tasks or
\* enqueued_tasks before a step and is in neither after it) has had
\* shutdown(DropCode) called on its handle exactly once, in that step; and the
\* handle of a Job that is in active_tasks or enqueued_tasks has never had
\* shutdown(DropCode) called.
C13_ScopedShutdown ==
  [][/\ \A j \in Held(active_tasks, enqueued_tasks) :
          j \notin Held(active_tasks', enqueued_tasks')
            => /\ remote'[j.id].drops = 1
               /\ Len(CallsOn(j.id, "shutdown", "DropCode", last'.calls)) = 1
     /\ \A j \in Held(active_tasks', enqueued_tasks') :
          /\ remote'[j.id].drops = 0
          /\ CallsOn(j.id, "shutdown", "DropCode", last'.calls) = <<>>]_vars

C13_Witness ==
  /\ last.op = "poll"
  /\ active_tasks # {}
  /\ \E i, k \in 1..Len(last.calls) :
       /\ i < k
       /\ last.calls[i].call = "shutdown" /\ last.calls[i].arg = "Stalled"
       /\ last.calls[k].call = "shutdown" /\ last.calls[k].arg = "DropCode"
       /\ last.calls[i].job = last.calls[k].job
       /\ remote[last.calls[k].job].drops = 1

\* C14: an on_block_finalized that begins while the keygen flag is set returns
\* Ok at once: it waits for no chain query, pushes no task, and leaves
\* active_tasks, enqueued_tasks and enqueued_messages as they were.
C14_KeygenLock ==
  [][(last'.op = "on_block_finalized" /\ lock)
       => /\ last'.returned = "Ok"
          /\ obf' = Idle
          /\ njobs' = njobs
          /\ last'.calls = <<>>
          /\ active_tasks' = active_tasks
          /\ enqueued_tasks' = enqueued_tasks
          /\ enqueued_messages' = enqueued_messages]_vars

C14_Witness ==
  /\ last.op = "on_block_finalized"
  /\ last.returned = "Ok"
  /\ lock
  /\ obf = Idle
  /\ njobs > 0

\* C15: immediately after force_shutdown_all, active_tasks, enqueued_tasks and
\* enqueued_messages are empty, and the handle of every Job that was in
\* active_tasks or enqueued_tasks has had shutdown(DropCode) called.
C15_ForceShutdownAll ==
  [][last'.op = "force_shutdown_all"
       => /\ active_tasks' = {}
          /\ enqueued_tasks' = <<>>
          /\ enqueued_messages' = <<>>
          /\ \A j \in Held(active_tasks, enqueued_tasks) :
               /\ CallsOn(j.id, "shutdown", "DropCode", last'.calls) # <<>>
               /\ remote'[j.id].drops > 0]_vars

C15_Witness ==
  /\ last.op = "force_shutdown_all"
  /\ Len(last.calls) = 2
  /\ last.calls[1].job # last.calls[2].job
  /\ active_tasks = {}
  /\ enqueued_tasks = <<>>
  /\ enqueued_messages = <<>>

\* C16: when handle.start() answers an error while poll or a force-start push
\* starts a Job, the Job is not in active_tasks afterwards, its handle has had
\* shutdown(DropCode) called, and no buffered message was handed to it.
C16_StartFailure ==
  [][last'.op \in {"poll", "push_task_force"}
       => \A i \in 1..Len(last'.calls) :
            (last'.calls[i].call = "start" /\ last'.calls[i].arg = "Err")
              => /\ last'.calls[i].job \notin Ids(active_tasks')
                 /\ CallsOn(last'.calls[i].job, "shutdown", "DropCode", last'.calls) # <<>>
                 /\ DeliveriesTo(last'.calls[i].job, last'.calls) = <<>>]_vars

\* C17: within one on_block_finalized at most one task is pushed for a
\* fingerprint: the invocation that has just pushed a task does not push
\* another one with the same task hash; and no task is pushed for a task hash
\* that job_exists answers true for.
C17_OneSigningSet ==
  [][last'.op \in {"push_task", "push_task_force"}
       => /\ ( /\ last.op \in {"push_task", "push_task_force"}
               /\ last.returned = ""
               /\ obf.pc = "init" )
               => last'.arg.task_hash # last.arg.task_hash
          /\ ~job_exists(last'.arg.task_hash)]_vars

\* C18: a failure of initialize_signing_protocol for one ssid of one proposal
\* does not end the sweep: while ssids of the proposal or further proposals
\* remain, on_block_finalized does not return there with the error.
C18_FailureIsolation ==
  [][(/\ last'.op = "initialize_signing_protocol"
      /\ last'.result = "Err"
      /\ \/ obf.ssid < MAX_POTENTIAL_SIGNING_SETS_PER_PROPOSAL - 1
         \/ obf.batch < Len(obf.unsigned_proposals))
       => last'.returned # "Err"]_vars

\* C19: generate_signers either answers an error or a set of exactly t + 1
\* valid party ids.
C19_CommitteeSize ==
  (gs.pc = "returned" /\ gs.result = "Ok")
    => /\ Len(gs.set) = gs.t + 1
       /\ \A i \in 1..Len(gs.set) : valid_party(gs.set[i])

\* C20: a poll that directly follows a poll leaves active_tasks,
\* enqueued_tasks and enqueued_messages as the first one left them, starts no
\* Job and shuts down no handle.
C20_PollIdempotent ==
  [][(last.op = "poll" /\ last'.op = "poll")
       => /\ active_tasks' = active_tasks
          /\ enqueued_tasks' = enqueued_tasks
          /\ enqueued_messages' = enqueued_messages
          /\ last'.calls = <<>>]_vars

\* C21: no task is pushed into the WorkManager while the keygen flag is set,
\* also when keygen_lock is called while on_block_finalized is suspended at a
\* chain query or at initialize_signing_protocol.
C21_KeygenLockInterleaved ==
  [][last'.op \in {"push_task", "push_task_force"} => ~lock']_vars

\* C22: the driver of a Job is spawned at most once, only for a Job that is
\* in active_tasks when it is spawned, and not for a Job whose handle.start()
\* answered an error.
C22_DriverCoupling ==
  [][\A i \in 1..Len(last'.calls) :
       last'.calls[i].call = "spawn"
         => /\ remote'[last'.calls[i].job].spawned <= 1
            /\ last'.calls[i].job \in Ids(active_tasks')
            /\ CallsOn(last'.calls[i].job, "start", "Err", last'.calls) = <<>>]_vars

\* C23: with the poll task scheduled fairly and every active Job eventually
\* done or stalled, every Job of enqueued_tasks is eventually in active_tasks,
\* unless force_shutdown_all is called.
C23_EventualAdmission ==
  \A id \in 1..MaxJobs :
    (id \in Ids(SeqToSet(enqueued_tasks)))
      ~> (id \in Ids(active_tasks) \/ last.op = "force_shutdown_all")

====
